---- MODULE Spec2Model ----
(* golr: a live-reload supervisor.  The model covers Scanner.detect,      *)
(* Builder.build (as an outcome), Runner.spawn with its waiter goroutine, *)
(* Runner.kill and the event loop of main, together with the environment  *)
(* the loop reacts to: file modification times, child processes, signals. *)
EXTENDS Integers, Sequences, FiniteSets

(* ---------------------------------------------------------------------- *)
(* Bounds                                                                  *)
(* ---------------------------------------------------------------------- *)

\* number of watched source files (len(srcs))
NumSrcs == 2

\* modification times and the baseline range over 0..MaxTime
MaxTime == 2

(* ---------------------------------------------------------------------- *)
(* Program constants                                                       *)
(* ---------------------------------------------------------------------- *)

building == 0
running == 1
killing == 2
exiting == 3

\* capacity of cchan: make(chan os.Signal, 1)
CchanCap == 1

\* r.proc = nil
nil == 0

\* os.Stat(f) returned an error
NoFile == -1

Times == 0 .. MaxTime
Srcs == 1 .. NumSrcs

VARIABLES
    state,      \* main: state
    mtime,      \* Scanner.mtime, the baseline
    files,      \* the file system: ModTime of every watched file, or NoFile
    proc,       \* Runner.proc: nil or the index of a child in children
    children,   \* every process started by spawn(), with its waiter goroutine
    cchan,      \* number of signals buffered in cchan
    tick,       \* flips at every iteration of the event loop
    ev,         \* what the last iteration of the event loop did
    det,        \* result of the last detect() call; prev: the call before
                \* it returned true and no file was modified in between
    quiet,      \* no watched file was modified since the last detect() call
    nbuild,     \* number of build() calls so far
    chg,        \* detect() returned true since the last build() call
    sinceFail,  \* a build failed and no build + spawn has succeeded since
    cyc,        \* loop events since a change was detected with a tracked child
    nspawn,     \* number of spawn() calls so far
    nkill,      \* number of kill() calls so far
    lastb,      \* outcome of the last pass through Building
    calm        \* no file was ahead of the baseline at the start, and no file
                \* was modified and no signal arrived since

vars == <<state, mtime, files, proc, children, cchan, tick, ev, det, quiet,
          nbuild, chg, sinceFail, cyc, nspawn, nkill, lastb, calm>>

(* ---------------------------------------------------------------------- *)
(* Scanner                                                                 *)
(* ---------------------------------------------------------------------- *)

\* err == nil after os.Stat(f)
StatOk(fi) == fi # NoFile

AfterOrEqual(t, u) == t >= u

AfterOrBefore(t, u) == t # u

\* mtime.After(s.mtime)
After(t, u) == t > u

RECURSIVE detectFromStatErr(_, _, _)
detectFromStatErr(i, fs, base) ==
    IF i > NumSrcs
    THEN [ret |-> FALSE, mtime |-> base, f |-> 0]
    ELSE IF ~StatOk(fs[i]) \/ After(fs[i], base)
         THEN [ret |-> TRUE, mtime |-> IF StatOk(fs[i]) THEN fs[i] ELSE base, f |-> i]
         ELSE detectFromStatErr(i + 1, fs, base)

\* the loop of detect(), from the i-th watched file on
RECURSIVE detectFrom(_, _, _)
detectFrom(i, fs, base) ==
    IF i > NumSrcs
    THEN [ret |-> FALSE, mtime |-> base, f |-> 0]
    ELSE IF StatOk(fs[i]) /\ After(fs[i], base)
         THEN [ret |-> TRUE, mtime |-> fs[i], f |-> i]
         ELSE detectFrom(i + 1, fs, base)

detect(fs, base) == detectFrom(1, fs, base)

(* ---------------------------------------------------------------------- *)
(* Runner                                                                  *)
(* ---------------------------------------------------------------------- *)

\* a process started by os.StartProcess and the goroutine waiting on it
NewChild == [status |-> "running", killed |-> FALSE, waiter |-> "waiting", sent |-> 0]

spawnKeepsOldHandle(p, ch, ok) ==
    IF ~ok
    THEN [proc |-> Len(ch), children |-> ch, err |-> TRUE]
    ELSE [proc |-> Len(ch) + 1, children |-> Append(ch, NewChild), err |-> FALSE]

\* spawn(); ok is whether os.StartProcess succeeded
spawn(p, ch, ok) ==
    IF ~ok
    THEN [proc |-> p, children |-> ch, err |-> TRUE]
    ELSE [proc |-> Len(ch) + 1, children |-> Append(ch, NewChild), err |-> FALSE]

killKeepsHandle(p, ch) ==
    IF p # nil
    THEN [proc |-> p, children |-> [ch EXCEPT ![p].killed = TRUE], ret |-> TRUE]
    ELSE [proc |-> p, children |-> ch, ret |-> FALSE]

\* kill()
kill(p, ch) ==
    IF p # nil
    THEN [proc |-> nil, children |-> [ch EXCEPT ![p].killed = TRUE], ret |-> TRUE]
    ELSE [proc |-> p, children |-> ch, ret |-> FALSE]

waiterResends(c) == [c EXCEPT !.waiter = "sending", !.sent = @ + 1]

\* the waiter goroutine once its send on pchan has been received
waiterSent(c) == [c EXCEPT !.waiter = "done", !.sent = @ + 1]

\* the waiter goroutines blocked in  r.pchan <- PStateErr{pstate, err}
Senders == {c \in DOMAIN children : children[c].waiter = "sending"}

\* the waiter goroutines whose message has not been received
Outstanding == {c \in DOMAIN children : children[c].waiter # "done"}

(* ---------------------------------------------------------------------- *)
(* main: the event loop                                                    *)
(* ---------------------------------------------------------------------- *)

afterBuildRetry(berr) == IF berr THEN building ELSE running

\* state = running, after build() and spawn()
afterBuild(berr) == running

afterKillAlwaysKilling(killed) == killing

afterKillIgnores(killed) == IF killed THEN killing ELSE running

\* if runner.kill() { state = killing } else { state = building }
afterKill(killed) == IF killed THEN killing ELSE building

afterExitRestarts(st) == building

afterExitStays(st) == IF st = killing THEN building ELSE running

\* if (state == killing) { state = building } else { state = exiting }
afterExit(st) == IF st = killing THEN building ELSE exiting

onSignalKills(p, ch) == [proc |-> kill(p, ch).proc, children |-> kill(p, ch).children]

\* case sig := <-cchan: the runner is not touched
onSignal(p, ch) == [proc |-> p, children |-> ch]

defaultAlways(snd, cc) == TRUE

defaultIfNoSender(snd, cc) == snd = {}

\* select takes its default case only when no other case can proceed
defaultReady(snd, cc) == snd = {} /\ cc = 0

\* the history of the cycle that starts when a change is detected while a
\* child is tracked; it is dropped when the cycle is over
Closed == Len(cyc) = 4 \/ (Len(cyc) = 3 /\ ev = "build_fail")

Log(e) == IF cyc = <<>> \/ Closed THEN <<>> ELSE Append(cyc, e)

Init ==
    /\ state = building
    /\ mtime \in Times
    /\ files \in [Srcs -> Times \cup {NoFile}]
    /\ proc = nil
    /\ children = <<>>
    /\ cchan = 0
    /\ tick = 0
    /\ ev = "start"
    /\ det = [ret |-> FALSE, f |-> 0, prev |-> FALSE]
    /\ quiet = FALSE
    /\ nbuild = 0
    /\ chg = FALSE
    /\ sinceFail = FALSE
    /\ cyc = <<>>
    /\ nspawn = 0
    /\ nkill = 0
    /\ lastb = "none"
    /\ calm = \A f \in Srcs : ~(StatOk(files[f]) /\ files[f] > mtime)

\* state == building: build(), spawn() if it succeeded, state = running
Build ==
    /\ state = building
    /\ \E berr \in BOOLEAN, sok \in BOOLEAN :
         LET sp == IF berr THEN [proc |-> proc, children |-> children, err |-> FALSE]
                   ELSE spawn(proc, children, sok)
         IN /\ berr => sok
            /\ proc' = sp.proc
            /\ children' = sp.children
            /\ ev' = IF berr THEN "build_fail" ELSE IF sp.err THEN "spawn_fail" ELSE "spawn_ok"
            /\ sinceFail' = IF berr THEN TRUE ELSE IF sp.err THEN sinceFail ELSE FALSE
            /\ cyc' = IF cyc = <<>> \/ Closed THEN <<>>
                      ELSE IF berr THEN Append(cyc, "build")
                      ELSE cyc \o <<"build", "spawn">>
            /\ state' = afterBuild(berr)
            /\ lastb' = ev'
            /\ nspawn' = IF berr THEN nspawn ELSE nspawn + 1
    /\ nbuild' = nbuild + 1
    /\ chg' = FALSE
    /\ tick' = 1 - tick
    /\ UNCHANGED <<mtime, files, cchan, det, quiet, nkill, calm>>

\* select, default case: detect(), and kill() if it found a change
SelectDefault ==
    /\ state \in {running, killing}
    /\ defaultReady(Senders, cchan)
    /\ LET d == detect(files, mtime)
           k == kill(proc, children)
       IN /\ mtime' = d.mtime
          /\ det' = [ret |-> d.ret, f |-> d.f, prev |-> det.ret /\ quiet]
          /\ quiet' = TRUE
          /\ IF d.ret
             THEN /\ proc' = k.proc
                  /\ children' = k.children
                  /\ state' = afterKill(k.ret)
                  /\ ev' = IF k.ret THEN "kill_true" ELSE "kill_false"
                  /\ chg' = TRUE
                  /\ nkill' = nkill + 1
                  /\ cyc' = IF state = running /\ proc # nil
                               /\ children[proc].status = "running"
                            THEN <<"kill">> ELSE Log("kill")
             ELSE /\ ev' = "detect_false"
                  /\ UNCHANGED <<proc, children, state, chg, cyc, nkill>>
    /\ tick' = 1 - tick
    /\ UNCHANGED <<files, cchan, nbuild, sinceFail, nspawn, lastb, calm>>

\* select, case pstate := <-pchan
SelectPchan ==
    /\ state \in {running, killing}
    /\ \E c \in Senders :
         /\ children' = [children EXCEPT ![c] = waiterSent(@)]
         /\ cyc' = Log(IF c = Len(children) THEN "recv" ELSE "recv_old")
    /\ state' = afterExit(state)
    /\ ev' = "recv"
    /\ tick' = 1 - tick
    /\ UNCHANGED <<mtime, files, proc, cchan, det, quiet, nbuild, chg, sinceFail,
                   nspawn, nkill, lastb, calm>>

\* select, case sig := <-cchan
SelectCchan ==
    /\ state \in {running, killing}
    /\ cchan > 0
    /\ cchan' = cchan - 1
    /\ state' = exiting
    /\ ev' = "signal"
    /\ cyc' = <<>>
    /\ tick' = 1 - tick
    /\ LET r == onSignal(proc, children)
       IN proc' = r.proc /\ children' = r.children
    /\ UNCHANGED <<mtime, files, det, quiet, nbuild, chg, sinceFail,
                   nspawn, nkill, lastb, calm>>

Loop == Build \/ SelectDefault \/ SelectPchan \/ SelectCchan

(* ---------------------------------------------------------------------- *)
(* The environment, for as long as the program runs                        *)
(* ---------------------------------------------------------------------- *)

\* a watched file is written, or its modification time is set
Touch ==
    /\ state # exiting
    /\ \E f \in Srcs, t \in Times :
         /\ files[f] # t
         /\ files' = [files EXCEPT ![f] = t]
    /\ quiet' = FALSE
    /\ cyc' = <<>>
    /\ calm' = FALSE
    /\ UNCHANGED <<state, mtime, proc, children, cchan, tick, ev, det, nbuild, chg, sinceFail,
                   nspawn, nkill, lastb>>

\* a watched file is removed
Remove ==
    /\ state # exiting
    /\ \E f \in Srcs :
         /\ files[f] # NoFile
         /\ files' = [files EXCEPT ![f] = NoFile]
    /\ quiet' = FALSE
    /\ cyc' = <<>>
    /\ calm' = FALSE
    /\ UNCHANGED <<state, mtime, proc, children, cchan, tick, ev, det, nbuild, chg, sinceFail,
                   nspawn, nkill, lastb>>

\* an interrupt arrives; signal.Notify drops it when cchan is full
Signal ==
    /\ state # exiting
    /\ cchan < CchanCap
    /\ cchan' = cchan + 1
    /\ cyc' = <<>>
    /\ calm' = FALSE
    /\ UNCHANGED <<state, mtime, files, proc, children, tick, ev, det, quiet, nbuild, chg, sinceFail,
                   nspawn, nkill, lastb>>

\* a child process ends, on its own or because it was killed
ChildExit ==
    /\ state # exiting
    /\ \E c \in DOMAIN children :
         /\ children[c].status = "running"
         /\ children' = [children EXCEPT ![c].status = "exited"]
    /\ UNCHANGED <<state, mtime, files, proc, cchan, tick, ev, det, quiet, nbuild, chg, sinceFail, cyc,
                   nspawn, nkill, lastb, calm>>

\* proc.Wait() returns in a waiter goroutine, which goes on to its send
WaiterWake ==
    /\ state # exiting
    /\ \E c \in DOMAIN children :
         /\ children[c].status = "exited"
         /\ children[c].waiter = "waiting"
         /\ children' = [children EXCEPT ![c].waiter = "sending"]
    /\ UNCHANGED <<state, mtime, files, proc, cchan, tick, ev, det, quiet, nbuild, chg, sinceFail, cyc,
                   nspawn, nkill, lastb, calm>>

Next == Build \/ SelectDefault \/ SelectPchan \/ SelectCchan
        \/ Touch \/ Remove \/ Signal \/ ChildExit \/ WaiterWake

Spec == Init /\ [][Next]_vars

\* the loop keeps iterating: build() returns and select never blocks
FairSpec == Spec /\ WF_vars(Loop)

\* a child that was killed ends
KilledChildExit ==
    /\ ChildExit
    /\ \E c \in DOMAIN children :
         children[c].killed /\ children[c].status = "running"
                            /\ children'[c].status = "exited"

\* the loop keeps iterating, a killed child ends, and the waiter of a child
\* that has ended gets to its send
LiveSpec == Spec /\ WF_vars(Loop) /\ WF_vars(KilledChildExit) /\ WF_vars(WaiterWake)

TypeOK ==
    /\ state \in {building, running, killing, exiting}
    /\ mtime \in Times
    /\ files \in [Srcs -> Times \cup {NoFile}]
    /\ proc \in {nil} \cup DOMAIN children
    /\ cchan \in 0 .. CchanCap
    /\ tick \in {0, 1}

(* ---------------------------------------------------------------------- *)
(* Steps of the loop, recognised from outside                              *)
(* ---------------------------------------------------------------------- *)

LoopStep == tick' # tick

DetectStep == LoopStep /\ ev' \in {"detect_false", "kill_true", "kill_false"}

KillStep == LoopStep /\ ev' \in {"kill_true", "kill_false"}

\* the coordinator receives a completion message
RecvStep == \E c \in DOMAIN children :
                children[c].waiter = "sending" /\ children'[c].waiter = "done"

IsPrefix(s, t) == Len(s) <= Len(t) /\ \A i \in 1 .. Len(s) : s[i] = t[i]

(* ---------------------------------------------------------------------- *)
(* C1                                                                      *)
(* ---------------------------------------------------------------------- *)

\* C1: the coordinator leaves Killing for Building only by receiving a
\* completion message, and leaves Killing otherwise only for Exiting, by
\* consuming a signal; a change detected while Killing leaves it in Killing.
C1_KillingWaitsForCompletion ==
    [][state = killing /\ state' # killing =>
          \/ state' = building /\ RecvStep
          \/ state' = exiting /\ cchan' < cchan]_vars

(* ---------------------------------------------------------------------- *)
(* C2                                                                      *)
(* ---------------------------------------------------------------------- *)

\* C2: at most one waiter goroutine is outstanding, and it is the waiter of
\* the child spawned last.
C2_OneOutstandingWaiter ==
    /\ Cardinality(Outstanding) <= 1
    /\ \A c \in Outstanding : c = Len(children)

(* ---------------------------------------------------------------------- *)
(* C3                                                                      *)
(* ---------------------------------------------------------------------- *)

\* C3: a build failure leaves the coordinator in Running with no tracked
\* child; from then until a build and a spawn succeed no completion message
\* is received, and Running is left only on a detected change or a signal.
C3_NoCompletionAfterBuildFailure ==
    [][/\ (LoopStep /\ ev' = "build_fail") => (state' = running /\ proc' = nil)
       /\ sinceFail => ~RecvStep
       /\ (sinceFail /\ state = running /\ state' # state) =>
              (KillStep \/ cchan' < cchan)]_vars

(* ---------------------------------------------------------------------- *)
(* C4                                                                      *)
(* ---------------------------------------------------------------------- *)

C5_NextDetectFalse ==
    [][/\ (DetectStep /\ det'.ret) => mtime' = files[det'.f]
       /\ (DetectStep /\ det.ret /\ quiet) => ~det'.ret]_vars

\* C5: after detect() returns true for a file the baseline is that file's
\* modification time, and the next detect() with no file modified in between
\* returns false and keeps the baseline, provided no watched file that can
\* be stat'ed has a later modification time than the reported file.
C5_NextDetectFalseIfLatest ==
    [][/\ (DetectStep /\ det'.ret) =>
              (StatOk(files[det'.f]) /\ mtime' = files[det'.f])
       /\ (/\ DetectStep /\ det.ret /\ quiet
           /\ \A g \in Srcs : StatOk(files[g]) => files[g] <= files[det.f]) =>
              (~det'.ret /\ mtime' = mtime)]_vars

\* detect() returned true and then, with no file modified, false, while
\* both files had been ahead of the baseline
C5_Witness ==
    /\ det.prev /\ ~det.ret /\ quiet
    /\ \A g \in Srcs : StatOk(files[g])
    /\ \E g \in Srcs : files[g] = mtime /\ mtime > 0

(* ---------------------------------------------------------------------- *)
(* C6                                                                      *)
(* ---------------------------------------------------------------------- *)

\* C6: once a signal is in the signal channel the coordinator eventually
\* reaches Exiting, whatever its state, given that the loop keeps running.
C6_SignalLeadsToExiting == (cchan > 0) ~> (state = exiting)

\* a signal is pending while Killing, with the killed child still running
C6_Witness ==
    /\ cchan > 0
    /\ state = killing
    /\ \E c \in DOMAIN children : children[c].status = "running"

(* ---------------------------------------------------------------------- *)
(* C7                                                                      *)
(* ---------------------------------------------------------------------- *)

\* C7: Building is left only for Running, by one build() call, whatever the
\* outcome; build() is called only in Building, and Building is entered
\* only after detect() has reported a change since the last build().
C7_BuildingThenRunning ==
    [][/\ (state = building /\ (LoopStep \/ state' # state)) =>
              (state' = running /\ nbuild' = nbuild + 1)
       /\ nbuild' # nbuild =>
              /\ state = building /\ state' = running /\ nbuild' = nbuild + 1
              /\ nbuild = 0 \/ chg
       /\ (state # building /\ state' = building) => chg']_vars

\* a second build has failed and the coordinator is Running
C7_Witness == nbuild >= 2 /\ ev = "build_fail" /\ state = running

(* ---------------------------------------------------------------------- *)
(* C8                                                                      *)
(* ---------------------------------------------------------------------- *)

\* C8: kill() with no tracked child returns false and changes neither the
\* handle nor any child or waiter; kill() with a tracked child returns true,
\* marks exactly that child as killed and clears the handle; neither
\* receives a completion message.
C8_KillFrame ==
    [][KillStep =>
          /\ ~RecvStep
          /\ IF proc = nil
             THEN ev' = "kill_false" /\ proc' = nil /\ children' = children
             ELSE /\ ev' = "kill_true"
                  /\ proc' = nil
                  /\ children' = [children EXCEPT ![proc].killed = TRUE]]_vars

\* kill() has returned true for a child and, later, false
C8_Witness ==
    /\ ev = "kill_false"
    /\ proc = nil
    /\ \E c \in DOMAIN children : children[c].killed

(* ---------------------------------------------------------------------- *)
(* C9                                                                      *)
(* ---------------------------------------------------------------------- *)

\* C9: after a change is detected in Running with a live tracked child, and
\* with no file modified and no signal since, the loop's events are, in
\* order, kill(), the receipt of that child's completion message, build()
\* and spawn(), after which the coordinator is Running.
C9_KillRecvBuildSpawn ==
    cyc # <<>> =>
        /\ IsPrefix(cyc, <<"kill", "recv", "build", "spawn">>)
        /\ Len(cyc) = 4 => state = running

(* ---------------------------------------------------------------------- *)
(* C10                                                                     *)
(* ---------------------------------------------------------------------- *)

\* C10: the baseline never decreases.
C10_BaselineMonotone == [][mtime' >= mtime]_vars

\* detect() has advanced the baseline and then found nothing, with one file
\* behind the baseline and one that cannot be stat'ed
C10_Witness ==
    /\ nbuild >= 2 /\ ev = "detect_false" /\ quiet
    /\ \E f \in Srcs : StatOk(files[f]) /\ files[f] < mtime
    /\ \E f \in Srcs : ~StatOk(files[f])

(* ---------------------------------------------------------------------- *)
(* C11                                                                     *)
(* ---------------------------------------------------------------------- *)

\* C11: a detect() call made while no watched file that can be stat'ed has
\* a modification time after the baseline returns false and leaves the
\* baseline and the coordinator's state unchanged; a file that cannot be
\* stat'ed is skipped.
C11_NoChangeNoDetect ==
    [][(DetectStep /\ \A g \in Srcs : StatOk(files[g]) => files[g] <= mtime) =>
          /\ ev' = "detect_false" /\ ~det'.ret
          /\ mtime' = mtime /\ state' = state /\ nkill' = nkill]_vars

\* detect() has returned false with one file un-stat-able and one present
C11_Witness ==
    /\ ev = "detect_false" /\ quiet /\ ~det.ret
    /\ \E f \in Srcs : ~StatOk(files[f])
    /\ \E f \in Srcs : StatOk(files[f])

(* ---------------------------------------------------------------------- *)
(* C12                                                                     *)
(* ---------------------------------------------------------------------- *)

\* C12: with no file ahead of the baseline at the start, no file modified
\* and no signal, once a spawn() has succeeded there has been exactly one
\* build(), one spawn() and no kill(); the coordinator is Running until the
\* child's completion message is received and Exiting from then on.
C12_BuildOnceSpawnOnce ==
    (calm /\ children # <<>>) =>
        /\ nbuild = 1 /\ nspawn = 1 /\ nkill = 0
        /\ Len(children) = 1 /\ proc = 1
        /\ children[1].waiter # "done" => state = running
        /\ children[1].waiter = "done" => state = exiting

\* the only child ended on its own and the coordinator is Exiting
C12_Witness ==
    /\ calm /\ Len(children) = 1
    /\ children[1].waiter = "done" /\ ~children[1].killed
    /\ state = exiting

(* ---------------------------------------------------------------------- *)
(* C13                                                                     *)
(* ---------------------------------------------------------------------- *)

\* C13: a failed build() is not followed by spawn(): no child is started
\* and none is tracked; spawn() is called only in the pass through Building
\* whose build() succeeded; and after a failed build the next detected
\* change moves the coordinator from Running to Building, not to Killing.
C13_NoSpawnAfterFailedBuild ==
    [][/\ (LoopStep /\ ev' = "build_fail") =>
              (nspawn' = nspawn /\ children' = children /\ proc' = nil)
       /\ nspawn' # nspawn =>
              /\ nbuild' = nbuild + 1 /\ nspawn' = nspawn + 1
              /\ ev' \in {"spawn_ok", "spawn_fail"}
       /\ (DetectStep /\ det'.ret /\ state = running /\ lastb = "build_fail") =>
              (state' = building /\ ev' = "kill_false")]_vars

\* a change was detected after a failed build and the coordinator is Building
C13_Witness ==
    /\ lastb = "build_fail" /\ ev = "kill_false" /\ state = building
    /\ nbuild >= 1 /\ proc = nil

(* ---------------------------------------------------------------------- *)
(* C14                                                                     *)
(* ---------------------------------------------------------------------- *)

\* C14 as stated: the handle never refers to a child whose completion
\* message the coordinator has received.
C14_NoDanglingHandle ==
    \A c \in DOMAIN children : children[c].waiter = "done" => proc # c

\* C14: while the loop runs (the state is not Exiting) the handle never
\* refers to a child whose completion message has been received; on the
\* Killing -> Building path kill() has cleared it, and only on the
\* Running -> Exiting path is it left referring to the child that ended.
C14_NoDanglingHandleWhileLooping ==
    \A c \in DOMAIN children :
        (children[c].waiter = "done" /\ proc = c) => state = exiting

\* the completion message of a killed child was received in Killing
C14_Witness ==
    /\ state = building /\ ev = "recv" /\ proc = nil
    /\ \E c \in DOMAIN children : children[c].waiter = "done" /\ children[c].killed

(* ---------------------------------------------------------------------- *)
(* C15                                                                     *)
(* ---------------------------------------------------------------------- *)

\* C15: a failed spawn() leaves the handle nil and starts no waiter, the
\* coordinator goes to Running, and the next detected change moves it to
\* Building, not to Killing.
C15_FailedSpawnTracksNothing ==
    [][/\ (LoopStep /\ ev' = "spawn_fail") =>
              (proc' = nil /\ children' = children /\ state' = running)
       /\ (DetectStep /\ det'.ret /\ state = running /\ lastb = "spawn_fail") =>
              (state' = building /\ ev' = "kill_false" /\ children' = children)]_vars

\* after an earlier child, a spawn() failed and the next change led to Building
C15_Witness ==
    /\ lastb = "spawn_fail" /\ ev = "kill_false" /\ state = building
    /\ children # <<>> /\ proc = nil

(* ---------------------------------------------------------------------- *)
(* C16                                                                     *)
(* ---------------------------------------------------------------------- *)

\* C16 as stated: every loop iteration in Running or Killing calls detect().
C16_DetectEveryIteration ==
    [][(LoopStep /\ state \in {running, killing}) => DetectStep]_vars

\* C16: a loop iteration in Running or Killing calls detect(), once, exactly
\* when neither a completion message nor a signal is ready; otherwise it
\* handles the message or the signal and does not call detect().
C16_DetectOnlyWhenNothingReady ==
    [][(LoopStep /\ state \in {running, killing}) =>
          /\ DetectStep <=> (Senders = {} /\ cchan = 0)
          /\ DetectStep => quiet'
          /\ ~DetectStep => (det' = det /\ mtime' = mtime /\ quiet' = quiet)]_vars

\* a completion message was handled in an iteration that left a modified
\* file undetected
C16_Witness ==
    /\ ev = "recv"
    /\ \E f \in Srcs : StatOk(files[f]) /\ files[f] > mtime

(* ---------------------------------------------------------------------- *)
(* C17                                                                     *)
(* ---------------------------------------------------------------------- *)

\* C17: consuming a signal moves the coordinator to Exiting without calling
\* kill() and without changing the handle, any child or any waiter; once
\* Exiting, build(), spawn() and kill() are not called again.
C17_SignalExitLeavesChild ==
    [][/\ cchan' < cchan =>
              /\ state' = exiting /\ nkill' = nkill
              /\ proc' = proc /\ children' = children
       /\ state = exiting =>
              /\ state' = exiting
              /\ nbuild' = nbuild /\ nspawn' = nspawn /\ nkill' = nkill]_vars

\* the loop ended on a signal with the tracked child running and its waiter
\* still waiting
C17_Witness ==
    /\ state = exiting /\ ev = "signal" /\ proc # nil
    /\ children[proc].status = "running" /\ ~children[proc].killed
    /\ children[proc].waiter = "waiting"

(* ---------------------------------------------------------------------- *)
(* C18                                                                     *)
(* ---------------------------------------------------------------------- *)

\* C18: a completion message received in Running comes from the waiter of
\* the tracked child.
C18_CompletionFromTrackedChild ==
    [][(RecvStep /\ state = running) =>
          /\ proc # nil
          /\ children[proc].waiter = "sending"
          /\ children'[proc].waiter = "done"]_vars

(* ---------------------------------------------------------------------- *)
(* C19                                                                     *)
(* ---------------------------------------------------------------------- *)

\* C19: after detect() has returned true a build() is started, or the
\* coordinator reaches Exiting, given that the loop keeps running, a killed
\* child ends and its waiter gets to its send.
C19_ChangeLeadsToBuild == chg ~> (~chg \/ state = exiting)

\* a change was detected, the child killed, and a file modified since
C19_Witness ==
    /\ chg /\ state = killing /\ ~quiet
    /\ \E c \in DOMAIN children : children[c].killed /\ children[c].status = "running"

====
